---------------------------- MODULE Spec2Model ----------------------------
(***************************************************************************)
(* Model of src/physics/bounds.js (class Bounds): a mutable axis-aligned   *)
(* bounding box held as two corner records, min and max.                   *)
(*                                                                         *)
(* JavaScript numbers are modelled as integers plus the three IEEE-754     *)
(* values the code can produce from them: Infinity, -Infinity and NaN.     *)
(* Corner records are objects on a heap and a Bounds holds references to   *)
(* its two corner records, so that sharing between a bounds and its clone  *)
(* is something the model can express.                                     *)
(***************************************************************************)
EXTENDS Integers, Sequences, FiniteSets, TLC

VARIABLES heap, obj, last

vars == <<heap, obj, last>>

(***************************************************************************)
(* Numbers.                                                                *)
(***************************************************************************)

\* Encoding of the JS value Infinity; -Infinity is its negation.  Every
\* finite number of the model is strictly between the two.
Infinity == 1000

\* Encoding of the JS value NaN (the result of Infinity - Infinity).
NaN == Infinity + 1

IsFinite(n) == n > -Infinity /\ n < Infinity

\* JS unary minus.
Neg(n) == IF n = NaN THEN NaN ELSE -n

\* JS binary +.
Plus(m, n) ==
    IF m = NaN \/ n = NaN THEN NaN
    ELSE IF m = Infinity THEN (IF n = -Infinity THEN NaN ELSE Infinity)
    ELSE IF m = -Infinity THEN (IF n = Infinity THEN NaN ELSE -Infinity)
    ELSE IF n = Infinity \/ n = -Infinity THEN n
    ELSE m + n

\* JS binary -.
Minus(m, n) == Plus(m, Neg(n))

\* JS comparisons: every comparison with NaN is false.
LT(m, n) == m # NaN /\ n # NaN /\ m < n
GT(m, n) == m # NaN /\ n # NaN /\ m > n
LE(m, n) == m # NaN /\ n # NaN /\ m <= n
GE(m, n) == m # NaN /\ n # NaN /\ m >= n

(***************************************************************************)
(* Heap and objects.                                                       *)
(***************************************************************************)

\* The two Bounds objects the program holds.
Names == {"a", "b"}

Other(t) == IF t = "a" THEN "b" ELSE "a"

\* Addresses of corner records: two per live Bounds.
Addr == 1 .. 4

Vec(vx, vy) == [x |-> vx, y |-> vy]

\* The corner records a bounds object refers to.
Cells(o) == {o.min, o.max}

\* The two lowest addresses no live object other than the one being
\* replaced refers to: where `new Bounds()` puts its corner records.
Fresh(keep) ==
    LET free == Addr \ Cells(keep)
        lo   == CHOOSE m \in free : \A n \in free : m <= n
        hi   == CHOOSE m \in free \ {lo} : \A n \in free \ {lo} : m <= n
    IN  [min |-> lo, max |-> hi]

\* The value of a bounds: its corners read through the heap.
Val(h, o) == [min |-> h[o.min], max |-> h[o.max]]

(***************************************************************************)
(* The methods of Bounds, as functions from a heap to a heap (mutators)    *)
(* or to a value (getters, predicates).  `o` is `this`.                    *)
(***************************************************************************)

setMinMax(h, o, minX, minY, maxX, maxY) ==
    LET h1 == [h  EXCEPT ![o.min].x = minX]
        h2 == [h1 EXCEPT ![o.min].y = minY]
        h3 == [h2 EXCEPT ![o.max].x = maxX]
        h4 == [h3 EXCEPT ![o.max].y = maxY]
    IN  h4

\* clear with the signs of the sentinel exchanged.
clear_swapped(h, o) ==
    setMinMax(h, o, -Infinity, -Infinity, Infinity, Infinity)

clear(h, o) == setMinMax(h, o, Infinity, Infinity, -Infinity, -Infinity)

getX(h, o) == h[o.min].x

setX(h, o, value) ==
    LET deltaX == Minus(h[o.max].x, h[o.min].x)
        h1 == [h  EXCEPT ![o.min].x = value]
        h2 == [h1 EXCEPT ![o.max].x = Plus(value, deltaX)]
    IN  h2

getY(h, o) == h[o.min].y

setY(h, o, value) ==
    LET deltaY == Minus(h[o.max].y, h[o.min].y)
        h1 == [h  EXCEPT ![o.min].y = value]
        h2 == [h1 EXCEPT ![o.max].y = Plus(value, deltaY)]
    IN  h2

getWidth(h, o) == Minus(h[o.max].x, h[o.min].x)

\* width setter adding the value to max.x instead of to min.x.
setWidth_fromMax(h, o, value) ==
    [h EXCEPT ![o.max].x = Plus(h[o.max].x, value)]

setWidth(h, o, value) == [h EXCEPT ![o.max].x = Plus(h[o.min].x, value)]

getHeight(h, o) == Minus(h[o.max].y, h[o.min].y)

setHeight(h, o, value) == [h EXCEPT ![o.max].y = Plus(h[o.min].y, value)]

\* The loop body of add with the two checks of an axis made exclusive.
addVertex_elseIf(h, o, vertex) ==
    LET h1 == IF GT(vertex.x, h[o.max].x)
              THEN [h EXCEPT ![o.max].x = vertex.x]
              ELSE IF LT(vertex.x, h[o.min].x)
                   THEN [h EXCEPT ![o.min].x = vertex.x] ELSE h
        h2 == IF GT(vertex.y, h1[o.max].y)
              THEN [h1 EXCEPT ![o.max].y = vertex.y]
              ELSE IF LT(vertex.y, h1[o.min].y)
                   THEN [h1 EXCEPT ![o.min].y = vertex.y] ELSE h1
    IN  h2

\* One iteration of the loop of add: the four independent comparisons.
addVertex(h, o, vertex) ==
    LET h1 == IF GT(vertex.x, h[o.max].x)
              THEN [h  EXCEPT ![o.max].x = vertex.x] ELSE h
        h2 == IF LT(vertex.x, h1[o.min].x)
              THEN [h1 EXCEPT ![o.min].x = vertex.x] ELSE h1
        h3 == IF GT(vertex.y, h2[o.max].y)
              THEN [h2 EXCEPT ![o.max].y = vertex.y] ELSE h2
        h4 == IF LT(vertex.y, h3[o.min].y)
              THEN [h3 EXCEPT ![o.min].y = vertex.y] ELSE h3
    IN  h4

RECURSIVE addLoop(_, _, _, _)
addLoop(h, o, vertices, i) ==
    IF i > Len(vertices) THEN h
    ELSE addLoop(addVertex(h, o, vertices[i]), o, vertices, i + 1)

add(h, o, vertices, clr) ==
    LET h0 == IF clr = TRUE THEN clear(h, o) ELSE h
    IN  addLoop(h0, o, vertices, 1)

update(h, o, vertices) == add(h, o, vertices, TRUE)

\* addBounds with max.y assigned from bounds.min.y.
addBounds_maxTypo(h, o, bounds, clr) ==
    LET h0 == IF clr = TRUE THEN clear(h, o) ELSE h
        h1 == IF GT(h0[bounds.max].x, h0[o.max].x)
              THEN [h0 EXCEPT ![o.max].x = h0[bounds.max].x] ELSE h0
        h2 == IF LT(h1[bounds.min].x, h1[o.min].x)
              THEN [h1 EXCEPT ![o.min].x = h1[bounds.min].x] ELSE h1
        h3 == IF GT(h2[bounds.max].y, h2[o.max].y)
              THEN [h2 EXCEPT ![o.max].y = h2[bounds.min].y] ELSE h2
        h4 == IF LT(h3[bounds.min].y, h3[o.min].y)
              THEN [h3 EXCEPT ![o.min].y = h3[bounds.max].y] ELSE h3
    IN  h4

\* `bounds` is the argument object; it may be `this` itself.
addBounds(h, o, bounds, clr) ==
    LET h0 == IF clr = TRUE THEN clear(h, o) ELSE h
        h1 == IF GT(h0[bounds.max].x, h0[o.max].x)
              THEN [h0 EXCEPT ![o.max].x = h0[bounds.max].x] ELSE h0
        h2 == IF LT(h1[bounds.min].x, h1[o.min].x)
              THEN [h1 EXCEPT ![o.min].x = h1[bounds.min].x] ELSE h1
        h3 == IF GT(h2[bounds.max].y, h2[o.max].y)
              THEN [h2 EXCEPT ![o.max].y = h2[bounds.max].y] ELSE h2
        h4 == IF LT(h3[bounds.min].y, h3[o.min].y)
              THEN [h3 EXCEPT ![o.min].y = h3[bounds.max].y] ELSE h3
    IN  h4

\* contains with the lower ends of the intervals open.
contains_open(h, o, point) ==
       GT(point.x, h[o.min].x) /\ LE(point.x, h[o.max].x)
    /\ GT(point.y, h[o.min].y) /\ LE(point.y, h[o.max].y)

contains(h, o, point) ==
       GE(point.x, h[o.min].x) /\ LE(point.x, h[o.max].x)
    /\ GE(point.y, h[o.min].y) /\ LE(point.y, h[o.max].y)

\* overlaps with strict comparisons on the x axis.
overlaps_open(h, o, bounds) ==
       LT(h[o.min].x, h[bounds.max].x) /\ GT(h[o.max].x, h[bounds.min].x)
    /\ GE(h[o.max].y, h[bounds.min].y) /\ LE(h[o.min].y, h[bounds.max].y)

overlaps(h, o, bounds) ==
       LE(h[o.min].x, h[bounds.max].x) /\ GE(h[o.max].x, h[bounds.min].x)
    /\ GE(h[o.max].y, h[bounds.min].y) /\ LE(h[o.min].y, h[bounds.max].y)

\* translate adding vector.x to max.y.
translate_typo(h, o, vector) ==
    LET h1 == [h  EXCEPT ![o.min].x = Plus(h[o.min].x, vector.x)]
        h2 == [h1 EXCEPT ![o.max].x = Plus(h1[o.max].x, vector.x)]
        h3 == [h2 EXCEPT ![o.min].y = Plus(h2[o.min].y, vector.y)]
        h4 == [h3 EXCEPT ![o.max].y = Plus(h3[o.max].y, vector.x)]
    IN  h4

translate(h, o, vector) ==
    LET h1 == [h  EXCEPT ![o.min].x = Plus(h[o.min].x, vector.x)]
        h2 == [h1 EXCEPT ![o.max].x = Plus(h1[o.max].x, vector.x)]
        h3 == [h2 EXCEPT ![o.min].y = Plus(h2[o.min].y, vector.y)]
        h4 == [h3 EXCEPT ![o.max].y = Plus(h3[o.max].y, vector.y)]
    IN  h4

\* shift computing each delta after min has been assigned.
shift_recomputed(h, o, vector) ==
    LET h1 == [h  EXCEPT ![o.min].x = vector.x]
        h2 == [h1 EXCEPT ![o.max].x =
                   Plus(vector.x, Minus(h1[o.max].x, h1[o.min].x))]
        h3 == [h2 EXCEPT ![o.min].y = vector.y]
        h4 == [h3 EXCEPT ![o.max].y =
                   Plus(vector.y, Minus(h3[o.max].y, h3[o.min].y))]
    IN  h4

shift(h, o, vector) ==
    LET deltaX == Minus(h[o.max].x, h[o.min].x)
        deltaY == Minus(h[o.max].y, h[o.min].y)
        h1 == [h  EXCEPT ![o.min].x = vector.x]
        h2 == [h1 EXCEPT ![o.max].x = Plus(vector.x, deltaX)]
        h3 == [h2 EXCEPT ![o.min].y = vector.y]
        h4 == [h3 EXCEPT ![o.max].y = Plus(vector.y, deltaY)]
    IN  h4

resize(h, o, width, height) == setHeight(setWidth(h, o, width), o, height)

\* new Bounds(): the two corner records are allocated at `n` and set to
\* the empty sentinel.
construct(h, n) ==
    [h EXCEPT ![n.min] = Vec(Infinity, Infinity),
              ![n.max] = Vec(-Infinity, -Infinity)]

\* new Bounds(vertices).
constructFrom(h, n, vertices) == update(construct(h, n), n, vertices)

\* A clone that takes over the min record of the original.
cloneObject_shared(o, n) == [min |-> o.min, max |-> n.max]

\* The object clone() returns: a new Bounds at the fresh addresses `n`.
cloneObject(o, n) == n

\* The heap after o.clone(), the new object being cloneObject(o, n).
clone(h, o, n) ==
    LET bounds == cloneObject(o, n)
        h0 == construct(h, n)
    IN  setMinMax(h0, bounds, h0[o.min].x, h0[o.min].y, h0[o.max].x, h0[o.max].y)

(***************************************************************************)
(* State machine.  `last` records the call that produced the current       *)
(* state: the method, the object it was called on, its arguments and the   *)
(* value it returned.                                                      *)
(***************************************************************************)

\* Largest magnitude of a finite coordinate in the specifications whose
\* calls can grow or move a box without limit.
Lim == 1

\* Longest vertex list enumerated (the example list of three is added).
MaxLen == 2

Zero == Vec(0, 0)

Call(op, t, V, clr, p, q, ret, rb) ==
    [op |-> op, tgt |-> t, V |-> V, clear |-> clr, p |-> p, q |-> q,
     ret |-> ret, rb |-> rb]

\* Every finite coordinate on the heap is within the model's range.
Capped(h) ==
    \A c \in Addr : /\ (IsFinite(h[c].x) => h[c].x \in -Lim .. Lim)
                    /\ (IsFinite(h[c].y) => h[c].y \in -Lim .. Lim)

\* All sequences over S of length at most n.
SeqsUpTo(S, n) == UNION {[1 .. k -> S] : k \in 0 .. n}

\* A mutator called on object t: the heap changes, the objects stay.
Mutate(t, h, rec) ==
    /\ heap' = h
    /\ obj' = obj
    /\ last' = rec

\* A call that only returns a value.
Query(rec) ==
    /\ heap' = heap
    /\ obj' = obj
    /\ last' = rec

\* t = new Bounds()
New(t) ==
    LET n == Fresh(obj[Other(t)])
    IN  /\ heap' = construct(heap, n)
        /\ obj' = [obj EXCEPT ![t] = n]
        /\ last' = Call("new", t, <<>>, FALSE, Zero, Zero, 0, FALSE)

\* t = new Bounds(V)
NewFrom(t, V) ==
    LET n == Fresh(obj[Other(t)])
    IN  /\ heap' = constructFrom(heap, n, V)
        /\ obj' = [obj EXCEPT ![t] = n]
        /\ last' = Call("newFrom", t, V, FALSE, Zero, Zero, 0, FALSE)

Clear(t) ==
    Mutate(t, clear(heap, obj[t]),
           Call("clear", t, <<>>, FALSE, Zero, Zero, 0, FALSE))

SetMinMax(t, p, q) ==
    Mutate(t, setMinMax(heap, obj[t], p.x, p.y, q.x, q.y),
           Call("setMinMax", t, <<>>, FALSE, p, q, 0, FALSE))

SetX(t, v) ==
    Mutate(t, setX(heap, obj[t], v),
           Call("setX", t, <<>>, FALSE, Vec(v, 0), Zero, 0, FALSE))

SetY(t, v) ==
    Mutate(t, setY(heap, obj[t], v),
           Call("setY", t, <<>>, FALSE, Vec(0, v), Zero, 0, FALSE))

SetWidth(t, v) ==
    Mutate(t, setWidth(heap, obj[t], v),
           Call("setWidth", t, <<>>, FALSE, Vec(v, 0), Zero, 0, FALSE))

SetHeight(t, v) ==
    Mutate(t, setHeight(heap, obj[t], v),
           Call("setHeight", t, <<>>, FALSE, Vec(0, v), Zero, 0, FALSE))

GetX(t) ==
    Query(Call("getX", t, <<>>, FALSE, Zero, Zero, getX(heap, obj[t]), FALSE))

GetY(t) ==
    Query(Call("getY", t, <<>>, FALSE, Zero, Zero, getY(heap, obj[t]), FALSE))

GetWidth(t) ==
    Query(Call("getWidth", t, <<>>, FALSE, Zero, Zero,
               getWidth(heap, obj[t]), FALSE))

GetHeight(t) ==
    Query(Call("getHeight", t, <<>>, FALSE, Zero, Zero,
               getHeight(heap, obj[t]), FALSE))

Update(t, V) ==
    Mutate(t, update(heap, obj[t], V),
           Call("update", t, V, FALSE, Zero, Zero, 0, FALSE))

Add(t, V, clr) ==
    Mutate(t, add(heap, obj[t], V, clr),
           Call("add", t, V, clr, Zero, Zero, 0, FALSE))

\* t.addBounds(other, clr)
AddBounds(t, clr) ==
    Mutate(t, addBounds(heap, obj[t], obj[Other(t)], clr),
           Call("addBounds", t, <<>>, clr, Zero, Zero, 0, FALSE))

Contains(t, p) ==
    Query(Call("contains", t, <<>>, FALSE, p, Zero, 0,
               contains(heap, obj[t], p)))

\* t.overlaps(other)
Overlaps(t) ==
    Query(Call("overlaps", t, <<>>, FALSE, Zero, Zero, 0,
               overlaps(heap, obj[t], obj[Other(t)])))

Translate(t, v) ==
    Mutate(t, translate(heap, obj[t], v),
           Call("translate", t, <<>>, FALSE, v, Zero, 0, FALSE))

Shift(t, v) ==
    Mutate(t, shift(heap, obj[t], v),
           Call("shift", t, <<>>, FALSE, v, Zero, 0, FALSE))

Resize(t, w, h) ==
    Mutate(t, resize(heap, obj[t], w, h),
           Call("resize", t, <<>>, FALSE, Vec(w, h), Zero, 0, FALSE))

\* other = t.clone()
Clone(t) ==
    LET n == Fresh(obj[t])
    IN  /\ heap' = clone(heap, obj[t], n)
        /\ obj' = [obj EXCEPT ![Other(t)] = cloneObject(obj[t], n)]
        /\ last' = Call("clone", t, <<>>, FALSE, Zero, Zero, 0, FALSE)

\* The program after `a = new Bounds(); b = new Bounds()`.
InitObj == [t \in Names |-> IF t = "a" THEN [min |-> 1, max |-> 2]
                                       ELSE [min |-> 3, max |-> 4]]

InitHeap ==
    construct(construct([c \in Addr |-> Zero], InitObj["a"]), InitObj["b"])

Init ==
    /\ obj = InitObj
    /\ heap = InitHeap
    /\ last = Call("new", "b", <<>>, FALSE, Zero, Zero, 0, FALSE)

\* The current value of object t.
Box(t) == Val(heap, obj[t])

Sentinel == [min |-> Vec(Infinity, Infinity), max |-> Vec(-Infinity, -Infinity)]

\* A box with four finite coordinates.
FiniteBox(v) ==
    /\ IsFinite(v.min.x) /\ IsFinite(v.min.y)
    /\ IsFinite(v.max.x) /\ IsFinite(v.max.y)

\* min <= max on both axes.
ValidBox(v) == LE(v.min.x, v.max.x) /\ LE(v.min.y, v.max.y)

(***************************************************************************)
(* Spec: every method but clone, called on object a; object b is the       *)
(* argument of addBounds and overlaps and is rebuilt from vertex lists.    *)
(***************************************************************************)

Vals == {0, 1}

Pts == {Vec(0, 0), Vec(1, 1)}

Moves == {Vec(1, 0), Vec(-1, -1)}

Lists == {<<>>, <<Vec(0, 1)>>, <<Vec(1, 1), Vec(0, 0)>>}

ListsB == {<<Vec(0, 0), Vec(1, 1)>>, <<Vec(-1, 0)>>}

UpdLists == SeqsUpTo({Vec(0, 5), Vec(1, -1), Vec(-1, 0)}, MaxLen)

Next ==
    \/ New("a")
    \/ \E V \in UpdLists : NewFrom("a", V)
    \/ \E V \in ListsB : NewFrom("b", V)
    \/ Clear("a")
    \/ \E p \in Pts : \E q \in Pts \ {p} : SetMinMax("a", p, q)
    \/ \E v \in Vals : SetX("a", v) /\ Capped(heap')
    \/ \E v \in Vals : SetY("a", v) /\ Capped(heap')
    \/ \E v \in Vals : SetWidth("a", v) /\ Capped(heap')
    \/ \E v \in Vals : SetHeight("a", v) /\ Capped(heap')
    \/ GetX("a")
    \/ GetY("a")
    \/ GetWidth("a")
    \/ GetHeight("a")
    \/ \E V \in UpdLists : Update("a", V)
    \/ \E V \in Lists : Add("a", V, FALSE) /\ Capped(heap')
    \/ \E clr \in BOOLEAN : AddBounds("a", clr) /\ Capped(heap')
    \/ \E p \in Pts : Contains("a", p)
    \/ Overlaps("a")
    \/ \E v \in Moves : Translate("a", v) /\ Capped(heap')
    \/ \E v \in Pts : Shift("a", v) /\ Capped(heap')
    \/ \E w \in Vals : Resize("a", w, 1 - w) /\ Capped(heap')

Spec == Init /\ [][Next]_vars

\* Points with finite coordinates, inside and around every box of Spec.
ProbePts == {Vec(px, py) : px \in -(Lim + 1) .. (Lim + 1), py \in {-1, 0, 5, 6}}

\* C3: a bounds built from a non-empty list V, by the constructor or by
\* update(V) on any earlier state, contains every vertex of V, those on
\* its boundary included.
C3_UpdateContainsVertices ==
    (last.op \in {"newFrom", "update"} /\ last.V # <<>>)
        => \A i \in DOMAIN last.V : contains(heap, obj[last.tgt], last.V[i])

\* C3 witness: update(V) was called on a bounds and a vertex of V lies on
\* the corner of the result.
C3_Witness ==
    /\ last.op = "update" /\ last.tgt = "a"
    /\ last.V = <<Vec(0, 5), Vec(1, -1)>>
    /\ Box("a").min = Vec(0, -1) /\ Box("a").max = Vec(1, 5)

\* C4: after clear() the bounds is the empty sentinel whatever came before,
\* a second clear() changes nothing, and right after clear() or an empty
\* construction no finite point is contained.
C4_ClearIsEmpty ==
    /\ last.op = "clear"
         => /\ Box(last.tgt) = Sentinel
            /\ clear(heap, obj[last.tgt]) = heap
    /\ (last.op \in {"clear", "new"} \/ (last.op = "newFrom" /\ last.V = <<>>))
         => \A p \in ProbePts : ~contains(heap, obj[last.tgt], p)

\* C4 witness: clear() was called on a.
C4_Witness == last.op = "clear" /\ last.tgt = "a" /\ Box("a") = Sentinel

(***************************************************************************)
(* SpecAdd: one bounds, built and grown from vertex lists.                 *)
(***************************************************************************)

AddVertices == {Vec(1, 1), Vec(-1, -1), Vec(0, 5), Vec(0, 0), Vec(1, -1)}

ExampleList == <<Vec(1, 1), Vec(-1, -1), Vec(0, 5)>>

AddLists == SeqsUpTo(AddVertices, MaxLen) \cup {ExampleList}

NextAdd ==
    \/ New("a")
    \/ \E V \in AddLists : NewFrom("a", V)
    \/ \E V \in AddLists : Update("a", V)
    \/ \E V \in AddLists, clr \in BOOLEAN : Add("a", V, clr)
    \/ \E p \in AddVertices : Contains("a", p)

SpecAdd == Init /\ [][NextAdd]_vars

\* Smallest and largest element of a set of numbers none of which is NaN;
\* of the empty set, the identity of min and of max.
SetMin(S) == IF S = {} THEN Infinity ELSE CHOOSE m \in S : \A n \in S : m <= n
SetMax(S) == IF S = {} THEN -Infinity ELSE CHOOSE m \in S : \A n \in S : m >= n

XsOf(V) == {V[i].x : i \in DOMAIN V}
YsOf(V) == {V[i].y : i \in DOMAIN V}

\* The smallest box around the content of B (when kept) and the vertices V.
Hull(B, V, clr) ==
    LET keep(n) == IF clr THEN {} ELSE {n}
    IN  [min |-> Vec(SetMin(XsOf(V) \cup keep(B.min.x)),
                     SetMin(YsOf(V) \cup keep(B.min.y))),
         max |-> Vec(SetMax(XsOf(V) \cup keep(B.max.x)),
                     SetMax(YsOf(V) \cup keep(B.max.y)))]

\* C1: from an empty or valid bounds, add(V, clear) leaves the smallest box
\* around the previous content (kept only when clear is false) and every
\* vertex of V; add([], false) changes nothing, add([], true) gives the
\* empty sentinel, and the example list with clear gives (-1,-1)..(1,5).
C1_AddIsHull ==
    [][(/\ last'.op = "add"
        /\ (Box("a") = Sentinel \/ (FiniteBox(Box("a")) /\ ValidBox(Box("a")))))
       => /\ Box("a")' = Hull(Box("a"), last'.V, last'.clear)
          /\ (last'.V = <<>> /\ ~last'.clear => Box("a")' = Box("a"))
          /\ (last'.V = <<>> /\ last'.clear => Box("a")' = Sentinel)
          /\ (last'.V = ExampleList /\ last'.clear
                => Box("a")' = [min |-> Vec(-1, -1), max |-> Vec(1, 5)])]_vars

\* C1 witness: add without clear merged a kept box with a new vertex.
C1_Witness ==
    /\ last.op = "add" /\ ~last.clear /\ last.V = <<Vec(0, 5)>>
    /\ Box("a") = [min |-> Vec(-1, -1), max |-> Vec(1, 5)]

(***************************************************************************)
(* SpecPair: two bounds built from vertex lists, merged and compared.      *)
(***************************************************************************)

Grid == {Vec(gx, gy) : gx \in {-1, 0, 1}, gy \in {-1, 0, 1}}

\* The empty list, every single vertex (a zero-size box) and every pair.
PairLists == {<<>>} \cup {<<p>> : p \in Grid} \cup {<<p, q>> : p \in Grid, q \in Grid}

NextPair ==
    \E t \in Names :
        \/ \E V \in PairLists : NewFrom(t, V)
        \/ \E clr \in BOOLEAN : AddBounds(t, clr)
        \/ Overlaps(t)

SpecPair == Init /\ [][NextPair]_vars

\* The smallest box around two boxes: componentwise min and max of corners.
Merge(A, B) ==
    [min |-> Vec(SetMin({A.min.x, B.min.x}), SetMin({A.min.y, B.min.y})),
     max |-> Vec(SetMax({A.max.x, B.max.x}), SetMax({A.max.y, B.max.y}))]

\* C2: for a valid argument b, a.addBounds(b, false) leaves a as the
\* smallest box around the previous a and b, on the y axis as on the x
\* axis, and a.addBounds(b, true) leaves a with the min and max of b.
C2_AddBoundsMerges ==
    [][(/\ last'.op = "addBounds"
        /\ ValidBox(Box(Other(last'.tgt)))
        /\ (Box(last'.tgt) = Sentinel \/ ValidBox(Box(last'.tgt))))
       => /\ (~last'.clear =>
                Val(heap', obj'[last'.tgt])
                    = Merge(Box(last'.tgt), Box(Other(last'.tgt))))
          /\ (last'.clear =>
                Val(heap', obj'[last'.tgt]) = Box(Other(last'.tgt)))]_vars

\* The closed-interval test of the two boxes' values.
ClosedOverlap(A, B) ==
    /\ LE(A.min.x, B.max.x) /\ GE(A.max.x, B.min.x)
    /\ GE(A.max.y, B.min.y) /\ LE(A.min.y, B.max.y)

\* C5: a.overlaps(b) equals b.overlaps(a) and is the closed-interval test
\* on both axes, so boxes sharing only a corner or an edge overlap; the
\* call changes neither box.
C5_OverlapsSymmetricClosed ==
    [][last'.op = "overlaps"
       => LET t == last'.tgt
              u == Other(last'.tgt)
          IN  /\ heap' = heap /\ obj' = obj
              /\ last'.rb = overlaps(heap, obj[u], obj[t])
              /\ last'.rb = ClosedOverlap(Box(t), Box(u))
              /\ (/\ FiniteBox(Box(t)) /\ ValidBox(Box(t))
                  /\ FiniteBox(Box(u)) /\ ValidBox(Box(u))
                  /\ Box(t).max.x = Box(u).min.x
                  /\ Box(t).min.y <= Box(u).max.y
                  /\ Box(u).min.y <= Box(t).max.y) => last'.rb = TRUE]_vars

\* C5 witness: overlaps returned true for two boxes sharing one corner.
C5_Witness ==
    /\ last.op = "overlaps" /\ last.tgt = "a" /\ last.rb = TRUE
    /\ Box("a") = [min |-> Vec(-1, -1), max |-> Vec(0, 0)]
    /\ Box("b") = [min |-> Vec(0, 0), max |-> Vec(1, 1)]

(***************************************************************************)
(* SpecGeom: one bounds moved and resized.                                 *)
(***************************************************************************)

GeomLists ==
    {<<Vec(0, 0), Vec(4, 6)>>, <<Vec(0, 0), Vec(2, 2)>>, <<Vec(-1, 1)>>,
     <<Vec(0, 0), Vec(1, 1)>>}

GeomPos == {-1, 0, 10}

GeomSizes == {0, 1, 5}

GeomMoves == {Vec(mx, my) : mx \in {-1, 0, 1}, my \in {-1, 0, 1}}

NextGeom ==
    \/ \E V \in GeomLists : NewFrom("a", V)
    \/ SetMinMax("a", Vec(1, 1), Vec(0, 0))
    \/ \E v \in GeomPos : SetX("a", v)
    \/ \E v \in GeomPos : SetY("a", v)
    \/ \E v \in GeomSizes : SetWidth("a", v)
    \/ \E v \in GeomSizes : SetHeight("a", v)
    \/ \E w \in GeomSizes, h \in GeomSizes : Resize("a", w, h)
    \/ \E v \in GeomPos : Shift("a", Vec(v, v))
    \/ Shift("a", Vec(0, -1))
    \/ \E v \in GeomMoves : Translate("a", v) /\ Capped(heap')
    \/ GetWidth("a")
    \/ GetHeight("a")

SpecGeom == Init /\ [][NextGeom]_vars

\* C7: on a bounds with finite corners the x and y setters set min.x and
\* min.y and keep width, height and the other axis; shift(v) puts min at v
\* with the size kept, exactly as setting x then y, or y then x.
C7_PositionKeepsSize ==
    [][FiniteBox(Box("a")) =>
       LET B == Box("a")
           o == obj["a"]
           v == last'.p
       IN  /\ last'.op = "setX" =>
                /\ Box("a")'.min = Vec(v.x, B.min.y)
                /\ Box("a")'.max = Vec(v.x + (B.max.x - B.min.x), B.max.y)
           /\ last'.op = "setY" =>
                /\ Box("a")'.min = Vec(B.min.x, v.y)
                /\ Box("a")'.max = Vec(B.max.x, v.y + (B.max.y - B.min.y))
           /\ last'.op = "shift" =>
                /\ Box("a")'.min = v
                /\ Box("a")'.max = Vec(v.x + (B.max.x - B.min.x),
                                       v.y + (B.max.y - B.min.y))
                /\ Box("a")' = Val(setY(setX(heap, o, v.x), o, v.y), o)
                /\ Box("a")' = Val(setX(setY(heap, o, v.y), o, v.x), o)
           /\ (/\ last'.op = "shift" /\ v = Vec(10, 10)
               /\ B = [min |-> Vec(0, 0), max |-> Vec(4, 6)]) =>
                Box("a")' = [min |-> Vec(10, 10), max |-> Vec(14, 16)]]_vars

\* C7 witness: shift((10,10)) was called on the box (0,0)..(4,6).
C7_Witness ==
    /\ last.op = "shift" /\ last.p = Vec(10, 10)
    /\ Box("a") = [min |-> Vec(10, 10), max |-> Vec(14, 16)]

\* C8: on a bounds with a finite min the width setter changes only max.x,
\* to min.x + value, the height setter only max.y, to min.y + value, and
\* resize(w, h) does both; min is never changed and the getters then
\* return the sizes set.
C8_SizeKeepsMin ==
    [][(IsFinite(Box("a").min.x) /\ IsFinite(Box("a").min.y)) =>
       LET B == Box("a")
           v == last'.p
       IN  /\ last'.op = "setWidth" =>
                /\ Box("a")' = [B EXCEPT !.max.x = B.min.x + v.x]
                /\ getWidth(heap', obj'["a"]) = v.x
           /\ last'.op = "setHeight" =>
                /\ Box("a")' = [B EXCEPT !.max.y = B.min.y + v.y]
                /\ getHeight(heap', obj'["a"]) = v.y
           /\ last'.op = "resize" =>
                /\ Box("a")' = [min |-> B.min,
                                max |-> Vec(B.min.x + v.x, B.min.y + v.y)]
                /\ getWidth(heap', obj'["a"]) = v.x
                /\ getHeight(heap', obj'["a"]) = v.y
           /\ (/\ last'.op = "setWidth" /\ v.x = 5
               /\ B = [min |-> Vec(0, 0), max |-> Vec(2, 2)]) =>
                Box("a")' = [min |-> Vec(0, 0), max |-> Vec(5, 2)]]_vars

\* C8 witness: width = 5 was set on the box (0,0)..(2,2).
C8_Witness ==
    /\ last.op = "setWidth" /\ last.p.x = 5
    /\ Box("a") = [min |-> Vec(0, 0), max |-> Vec(5, 2)]

\* C9: on a bounds with finite corners translate(v) adds v.x to min.x and
\* max.x and v.y to min.y and max.y, keeping the size; translate(-v) then
\* restores min and max, and two translations commute.
C9_TranslateGroup ==
    [][(FiniteBox(Box("a")) /\ last'.op = "translate") =>
       LET B == Box("a")
           o == obj["a"]
           v == last'.p
       IN  /\ Box("a")'.min = Vec(B.min.x + v.x, B.min.y + v.y)
           /\ Box("a")'.max = Vec(B.max.x + v.x, B.max.y + v.y)
           /\ Box("a")'.max.x - Box("a")'.min.x = B.max.x - B.min.x
           /\ Box("a")'.max.y - Box("a")'.min.y = B.max.y - B.min.y
           /\ Val(translate(heap', o, Vec(-v.x, -v.y)), o) = B
           /\ \A u \in GeomMoves :
                translate(translate(heap, o, u), o, v)
                    = translate(translate(heap, o, v), o, u)]_vars

\* C9 witness: translate((-1,-1)) was called on the box (0,0)..(1,1).
C9_Witness ==
    /\ last.op = "translate" /\ last.p = Vec(-1, -1)
    /\ Box("a") = [min |-> Vec(-1, -1), max |-> Vec(0, 0)]

(***************************************************************************)
(* SpecValid: a bounds built from a non-empty vertex list and then changed *)
(* only by growing it with vertices or with a valid box, by moving it and  *)
(* by giving it a size that is not negative.                               *)
(***************************************************************************)

ValidLists == {<<Vec(0, 0)>>, <<Vec(1, -1)>>, <<Vec(-1, 0), Vec(0, 1)>>}

ValidListsB ==
    {<<Vec(0, 0)>>, <<Vec(-1, -1), Vec(1, 1)>>, <<Vec(-1, 0), Vec(0, 1)>>,
     <<Vec(1, -1), Vec(1, 0)>>, <<Vec(0, -1), Vec(0, 1)>>, <<Vec(-1, 1)>>,
     <<Vec(0, 0), Vec(1, 1)>>, <<Vec(-1, -1), Vec(0, 0)>>}

ValidPos == {-1, 0, 1}

ValidSizes == {0, 1, 2}

InitValid ==
    \E V \in ValidLists, W \in ValidListsB :
        /\ obj = InitObj
        /\ heap = constructFrom(constructFrom([c \in Addr |-> Zero],
                                              InitObj["a"], V),
                                InitObj["b"], W)
        /\ last = Call("newFrom", "b", W, FALSE, Zero, Zero, 0, FALSE)

NextValid ==
    \/ \E W \in ValidListsB : NewFrom("b", W)
    \/ \E V \in ValidLists, clr \in BOOLEAN : Add("a", V, clr) /\ Capped(heap')
    \/ \E V \in ValidLists : Update("a", V)
    \/ \E clr \in BOOLEAN : AddBounds("a", clr) /\ Capped(heap')
    \/ \E v \in GeomMoves : Translate("a", v) /\ Capped(heap')
    \/ \E vx \in ValidPos, vy \in ValidPos :
          Shift("a", Vec(vx, vy)) /\ Capped(heap')
    \/ \E v \in ValidPos : SetX("a", v) /\ Capped(heap')
    \/ \E v \in ValidPos : SetY("a", v) /\ Capped(heap')
    \/ \E v \in ValidSizes : SetWidth("a", v) /\ Capped(heap')
    \/ \E v \in ValidSizes : SetHeight("a", v) /\ Capped(heap')
    \/ \E w \in ValidSizes, h \in ValidSizes :
          Resize("a", w, h) /\ Capped(heap')

SpecValid == InitValid /\ [][NextValid]_vars

\* C10: from a bounds built from a non-empty vertex list, add and update
\* with non-empty lists, addBounds with a valid box, translate, shift, the
\* x and y setters and sizes that are not negative keep min <= max on
\* both axes.
C10_StaysValid == ValidBox(Box("a"))

\* C10 witness: addBounds has merged a box lying lower on the y axis, the
\* case in which min.y is assigned.
C10_Witness ==
    /\ last.op = "addBounds" /\ ~last.clear
    /\ Box("b").min.y < Box("b").max.y
    /\ Box("a").min.y = Box("b").max.y

(***************************************************************************)
(* SpecClone: a bounds and its clone, each then changed by every mutating  *)
(* method and cloned again.                                                *)
(***************************************************************************)

CloneLists == {<<>>, <<Vec(0, 0), Vec(1, 1)>>}

InitClone ==
    \E V \in CloneLists :
        LET h1 == constructFrom([c \in Addr |-> Zero], InitObj["a"], V)
            n  == Fresh(InitObj["a"])
        IN  /\ obj = [InitObj EXCEPT !["b"] = cloneObject(InitObj["a"], n)]
            /\ heap = clone(h1, InitObj["a"], n)
            /\ last = Call("clone", "a", <<>>, FALSE, Zero, Zero, 0, FALSE)

\* Every bounds is the empty sentinel or has four finite coordinates within
\* the model's range: the boxes SpecClone follows.
Tame(h, os) ==
    /\ Capped(h)
    /\ \A t \in Names : Val(h, os[t]) = Sentinel \/ FiniteBox(Val(h, os[t]))

NextClone ==
    \E t \in Names :
        \/ Clone(t)
        \/ Clear(t)
        \/ SetMinMax(t, Vec(1, 1), Vec(0, 0))
        \/ Add(t, <<Vec(1, 1)>>, FALSE) /\ Tame(heap', obj')
        \/ Update(t, <<Vec(0, 0)>>)
        \/ AddBounds(t, FALSE) /\ Tame(heap', obj')
        \/ Translate(t, Vec(1, 1)) /\ Tame(heap', obj')
        \/ Shift(t, Vec(1, 1)) /\ Tame(heap', obj')
        \/ Resize(t, 1, 1) /\ Tame(heap', obj')
        \/ SetX(t, 0) /\ Tame(heap', obj')
        \/ SetY(t, 0) /\ Tame(heap', obj')
        \/ SetWidth(t, 0) /\ Tame(heap', obj')
        \/ SetHeight(t, 0) /\ Tame(heap', obj')

SpecClone == InitClone /\ [][NextClone]_vars

\* C6: clone() leaves the original as it was and returns a new bounds with
\* the same min and max, sharing no corner record with it; afterwards no
\* mutating call on one of the two changes the min or max of the other.
C6_CloneIndependent ==
    [][LET t == last'.tgt
           u == Other(last'.tgt)
       IN  /\ last'.op = "clone" =>
                /\ Val(heap', obj'[t]) = Box(t)
                /\ Val(heap', obj'[u]) = Box(t)
                /\ Cells(obj'[t]) \cap Cells(obj'[u]) = {}
           /\ last'.op # "clone" => Val(heap', obj'[u]) = Box(u)]_vars

\* C6 witness: the width of the clone b was set to 0 and the original a
\* has the value it was built with.
C6_Witness ==
    /\ last.op = "setWidth" /\ last.tgt = "b"
    /\ Box("a") = [min |-> Vec(0, 0), max |-> Vec(1, 1)]
    /\ Box("b") = [min |-> Vec(0, 0), max |-> Vec(0, 1)]

=============================================================================
